---- MODULE Spec2Model ----
(***************************************************************************)
(* UNet input size constrains (MONAI tutorial notebook).                   *)
(*                                                                         *)
(* The notebook derives, for monai.networks.nets.UNet, the arithmetic      *)
(* rules an input of shape [B, C, *spatial] has to meet for a given        *)
(* strides tuple and normalization layer, and spot-checks them by running  *)
(* the network.  The model has one query at a time: the input is drawn in  *)
(* Init, Evaluate applies the rules of the section "Constrains of UNet",   *)
(* RunNetwork pushes the same shape through the layer structure printed    *)
(* in the section "Check UNet structure".                                  *)
(***************************************************************************)
EXTENDS Integers, Sequences, FiniteSets

\* ---------------------------------------------------------------- bounds
MaxStride  == 2   \* stride values are 1..MaxStride
MaxStrides == 3   \* len(strides) is 1..MaxStrides
MaxBatch   == 2   \* batch sizes are 0..MaxBatch
MaxSize    == 4   \* spatial sizes are 0..MaxSize
MaxDims    == 2   \* number of spatial dimensions is 1..MaxDims

\* ------------------------------------------------------------ primitives
RECURSIVE Prod(_)
Prod(s) == IF s = <<>> THEN 1 ELSE Head(s) * Prod(Tail(s))

RECURSIVE MaxOf(_)
MaxOf(s) ==
    IF Len(s) = 1 THEN s[1]
    ELSE LET m == MaxOf(Tail(s)) IN IF s[1] >= m THEN s[1] ELSE m

\* out = math.floor((size + stride - 1) / stride)
convOutputSizeOffByOne(size, stride) == (size + stride) \div stride

convOutputSizeFloor(size, stride) == size \div stride

convOutputSize(size, stride) == (size + stride - 1) \div stride

\* i * stride_value
transposedConvOutputSizeNoPad(size, stride) == (size - 1) * stride + 1

transposedConvOutputSize(size, stride) == size * stride

\* the layers as monai.networks.blocks.convolutions.Convolution builds them:
\* dilation = 1, padding = (kernel_size - 1) / 2, output_padding = stride - 1
\* nn.Conv3d(stride=stride_value, kernel_size=3, padding=1): the output size
\* formula of the layer, floor((in + 2*padding - dilation*(kernel_size - 1)
\* - 1) / stride + 1)
ConvLayerOutputSize(in, stride, kernel_size) ==
    LET dilation == 1
        padding  == (kernel_size - 1) \div 2
    IN  ((in + 2 * padding - dilation * (kernel_size - 1) - 1) \div stride) + 1

\* nn.ConvTranspose3d(stride=stride_value, kernel_size=3, padding=1,
\* output_padding=stride_value - 1): (in - 1)*stride - 2*padding
\* + dilation*(kernel_size - 1) + output_padding + 1
ConvTransposeLayerOutputSize(in, stride, kernel_size) ==
    LET dilation       == 1
        padding        == (kernel_size - 1) \div 2
        output_padding == stride - 1
    IN  (in - 1) * stride - 2 * padding + dilation * (kernel_size - 1)
            + output_padding + 1

\* kernel_size / up_kernel_size of the example cells (odd)
KernelSizes == {1, 3, 5}

ConvAll(sizes, stride) ==
    [i \in 1..Len(sizes) |-> convOutputSize(sizes[i], stride)]

TConvAll(sizes, stride) ==
    [i \in 1..Len(sizes) |-> transposedConvOutputSize(sizes[i], stride)]

\* ------------------------------------------------------- the input space
Norms == {"Batch", "Instance", "LocalResponse"}

RECURSIVE SeqsUpTo(_, _)
SeqsUpTo(S, n) ==
    IF n = 0 THEN {<<>>}
    ELSE LET shorter == SeqsUpTo(S, n - 1)
         IN  shorter \cup {Append(q, x) : q \in {r \in shorter : Len(r) = n - 1}, x \in S}

NonEmptySeqs(S, n) == SeqsUpTo(S, n) \ {<<>>}

\* the shapes and hyperparameters the notebook's example cells run
Scenarios ==
    { [strides |-> <<3>>, norm |-> "Batch", batch |-> 2, spatial |-> <<1, 1, 1>>],
      [strides |-> <<3>>, norm |-> "Batch", batch |-> 1, spatial |-> <<1, 1, 1>>],
      [strides |-> <<3>>, norm |-> "LocalResponse", batch |-> 1, spatial |-> <<1, 1, 1>>],
      [strides |-> <<3>>, norm |-> "Instance", batch |-> 1, spatial |-> <<4, 1, 1>>],
      [strides |-> <<3>>, norm |-> "Instance", batch |-> 1, spatial |-> <<1, 1, 3>>],
      [strides |-> <<3, 5>>, norm |-> "Batch", batch |-> 2, spatial |-> <<13, 14, 15>>],
      [strides |-> <<3, 5>>, norm |-> "Batch", batch |-> 1, spatial |-> <<12, 14, 15>>],
      [strides |-> <<3, 2, 4>>, norm |-> "LocalResponse", batch |-> 1, spatial |-> <<22, 23, 24>>],
      [strides |-> <<3, 2, 4>>, norm |-> "LocalResponse", batch |-> 1, spatial |-> <<25, 23, 24>>],
      [strides |-> <<1, 2, 2, 3>>, norm |-> "Instance", batch |-> 1, spatial |-> <<24, 12, 12>>],
      [strides |-> <<1, 2, 2, 3>>, norm |-> "Instance", batch |-> 1, spatial |-> <<12, 12, 12>>] }

Queries ==
    Scenarios \cup
    [ strides : NonEmptySeqs(1..MaxStride, MaxStrides),
      norm    : Norms,
      batch   : 0..MaxBatch,
      spatial : NonEmptySeqs(0..MaxSize, MaxDims) ]

\* -------------------------------------------------- the constraint rules
\* "we only need to ensure input_size >= 1"
PositiveShape(batch, spatial) ==
    batch >= 1 /\ \A i \in 1..Len(spatial) : spatial[i] >= 1

\* For v in [H, W, D]: size = math.floor((v + s[0] - 1) / s[0]);
\* np.remainder(size, np.prod(s[1:])) == 0        (len(channels) > 2 only)
DivisibilityRuleAnyDim(s, spatial) ==
    Len(s) > 1 =>
        \E i \in 1..Len(spatial) :
            convOutputSize(spatial[i], s[1]) % Prod(Tail(s)) = 0

DivisibilityRuleAllStrides(s, spatial) ==
    Len(s) > 1 =>
        \A i \in 1..Len(spatial) :
            convOutputSize(spatial[i], s[1]) % Prod(s) = 0

DivisibilityRule(s, spatial) ==
    Len(s) > 1 =>
        \A i \in 1..Len(spatial) :
            convOutputSize(spatial[i], s[1]) % Prod(Tail(s)) = 0

\* If using batch normalization: B > 1
BatchRuleAtLeastOne(batch) == batch >= 1

BatchRule(batch) == batch > 1

\* If using local response normalization: no (more) constrain
LocalResponseRuleAsBatch(batch) == batch > 1

LocalResponseRule(batch) == TRUE

\* If using instance normalization:
\*   len(channels) = 2: d = max(H, W, D), math.floor((d + s - 1) / s) >= 2
\*   len(channels) > 2: max_size = math.floor((d + s[0] - 1) / s[0]),
\*                      np.remainder(max_size, 2 * np.prod(s[1:])) == 0
InstanceRuleNoDoubling(s, spatial) ==
    LET max_size == convOutputSize(MaxOf(spatial), s[1])
    IN  IF Len(s) = 1 THEN max_size >= 2
        ELSE max_size % Prod(Tail(s)) = 0

InstanceRuleStrict(s, spatial) ==
    LET max_size == convOutputSize(MaxOf(spatial), s[1])
    IN  IF Len(s) = 1 THEN max_size > 2
        ELSE max_size % (2 * Prod(Tail(s))) = 0

InstanceRule(s, spatial) ==
    LET max_size == convOutputSize(MaxOf(spatial), s[1])
    IN  IF Len(s) = 1 THEN max_size >= 2
        ELSE max_size % (2 * Prod(Tail(s))) = 0

NormalizationRule(s, norm, batch, spatial) ==
    CASE norm = "Batch"         -> BatchRule(batch)
      [] norm = "LocalResponse" -> LocalResponseRule(batch)
      [] norm = "Instance"      -> InstanceRule(s, spatial)

\* the verdict: malformed shapes first, then the common constrains, then
\* ("In addition") the constrain of the normalization layer
VerdictNormFirst(s, norm, batch, spatial) ==
    IF ~PositiveShape(batch, spatial)
        THEN [kind |-> "Invalid", rule |-> "NonPositiveDimension"]
    ELSE IF ~NormalizationRule(s, norm, batch, spatial)
        THEN [kind |-> "Invalid", rule |-> "NormalizationSizeViolation"]
    ELSE IF ~DivisibilityRule(s, spatial)
        THEN [kind |-> "Invalid", rule |-> "SkipDivisibilityViolation"]
    ELSE [kind |-> "Valid", rule |-> "None"]

Verdict(s, norm, batch, spatial) ==
    IF ~PositiveShape(batch, spatial)
        THEN [kind |-> "Invalid", rule |-> "NonPositiveDimension"]
    ELSE IF ~DivisibilityRule(s, spatial)
        THEN [kind |-> "Invalid", rule |-> "SkipDivisibilityViolation"]
    ELSE IF ~NormalizationRule(s, norm, batch, spatial)
        THEN [kind |-> "Invalid", rule |-> "NormalizationSizeViolation"]
    ELSE [kind |-> "Valid", rule |-> "None"]

\* ------------------------------------------------------------ the network
\* torch.nn.functional._verify_batch_size: product of all dimensions except
\* the channel dimension > 1;  _verify_spatial_size: product of all spatial
\* dimensions > 1;  LocalResponseNorm: no constrain
NormLayerAccepts(norm, batch, sizes) ==
    CASE norm = "Batch"         -> batch * Prod(sizes) > 1
      [] norm = "Instance"      -> Prod(sizes) > 1
      [] norm = "LocalResponse" -> TRUE

\* torch.cat([x, self.submodule(x)], dim=1) for one spatial size x, where
\* the submodule is Sequential(down, SkipConnection(subblock), up) for each
\* remaining stride and a single stride-1 down layer at the bottom
SkipConnectionMatchesOuterOnly(x, ss) ==
    IF ss = <<>>
        THEN convOutputSize(x, 1) = x
    ELSE transposedConvOutputSize(convOutputSize(x, Head(ss)), Head(ss)) = x

RECURSIVE SkipConnectionMatches(_, _)
SkipConnectionMatches(x, ss) ==
    IF ss = <<>>
        THEN convOutputSize(x, 1) = x
    ELSE LET down == convOutputSize(x, Head(ss))
         IN  /\ SkipConnectionMatches(down, Tail(ss))
             /\ transposedConvOutputSize(down, Head(ss)) = x

\* the ADN normalization layers met inside SkipConnection(x), outermost first
RECURSIVE SubmoduleNormsAccept(_, _, _, _)
SubmoduleNormsAccept(norm, batch, sizes, ss) ==
    IF ss = <<>>
        THEN NormLayerAccepts(norm, batch, ConvAll(sizes, 1))
    ELSE LET down == ConvAll(sizes, Head(ss))
         IN  /\ NormLayerAccepts(norm, batch, down)
             /\ SubmoduleNormsAccept(norm, batch, down, Tail(ss))
             /\ NormLayerAccepts(norm, batch, TConvAll(down, Head(ss)))

\* ------------------------------------------------------------------ state
VARIABLES
    strides,        \* the network's strides tuple
    norm,           \* the network's normalization layer
    batchSize,      \* B of the input
    spatialSizes,   \* [H, W, D] of the input
    pc,             \* "start" -> "evaluated" -> "done"
    result,         \* the verdict of the constraint rules
    size,           \* size per dimension after the first down layer
    max_size,       \* size after the first down layer of d = max(H, W, D)
    skipMatches,    \* per dimension: every torch.cat got matching sizes
    normsAccept,    \* every normalization layer accepted its input
    netAccepted,    \* the forward pass returned
    netOutput,      \* the shape the forward pass printed
    kernel_size,    \* kernel size of the single layer built (0: none built)
    layerOutput     \* spatial sizes that single layer printed

vars == <<strides, norm, batchSize, spatialSizes, pc, result, size, max_size,
          skipMatches, normsAccept, netAccepted, netOutput, kernel_size,
          layerOutput>>

layer == <<kernel_size, layerOutput>>

input == <<strides, norm, batchSize, spatialSizes>>

NoResult == [kind |-> "None", rule |-> "None"]
NoOutput == [batch |-> 0, spatial |-> <<>>]

Fresh ==
    /\ pc = "start"
    /\ result = NoResult
    /\ size = <<>>
    /\ max_size = 0
    /\ skipMatches = <<>>
    /\ normsAccept = FALSE
    /\ netAccepted = FALSE
    /\ netOutput = NoOutput
    /\ kernel_size = 0
    /\ layerOutput = <<>>

Init ==
    /\ \E q \in Queries :
          /\ strides = q.strides
          /\ norm = q.norm
          /\ batchSize = q.batch
          /\ spatialSizes = q.spatial
    /\ Fresh

\* apply the rules of "Constrains of UNet" to the input
Evaluate ==
    /\ pc = "start"
    /\ size' = ConvAll(spatialSizes, strides[1])
    /\ max_size' = convOutputSize(MaxOf(spatialSizes), strides[1])
    /\ result' = Verdict(strides, norm, batchSize, spatialSizes)
    /\ pc' = "evaluated"
    /\ UNCHANGED <<input, skipMatches, normsAccept, netAccepted, netOutput,
                   layer>>

\* print(network(example).shape): first down layer, the intermediate skip
\* connection based block, the final up layer (conv only)
RunNetwork ==
    /\ pc = "evaluated"
    /\ LET down  == ConvAll(spatialSizes, strides[1])
           cats  == [i \in 1..Len(down) |->
                        SkipConnectionMatches(down[i], Tail(strides))]
           norms == /\ NormLayerAccepts(norm, batchSize, down)
                    /\ SubmoduleNormsAccept(norm, batchSize, down, Tail(strides))
           ok    == /\ PositiveShape(batchSize, spatialSizes)
                    /\ \A i \in 1..Len(cats) : cats[i]
                    /\ norms
       IN  /\ skipMatches' = cats
           /\ normsAccept' = norms
           /\ netAccepted' = ok
           /\ netOutput' = IF ok
                             THEN [batch |-> batchSize,
                                   spatial |-> TConvAll(down, strides[1])]
                             ELSE NoOutput
    /\ pc' = "done"
    /\ UNCHANGED <<input, result, size, max_size, layer>>

Next == Evaluate \/ RunNetwork

Spec == Init /\ [][Next]_vars

TypeOK ==
    /\ pc \in {"start", "evaluated", "done"}
    /\ kernel_size = 0
    /\ norm \in Norms
    /\ result.kind \in {"None", "Valid", "Invalid"}
    /\ netAccepted \in BOOLEAN

\* --------------------------------------------- the two formulas on their own
\* stride_value = 3; example = torch.rand([1, 3, 1, 15, 29])
InitShape ==
    /\ \/ \E q \in Queries :
             /\ strides = q.strides
             /\ norm = q.norm
             /\ batchSize = q.batch
             /\ spatialSizes = q.spatial
       \/ /\ strides = <<3>>
          /\ norm \in Norms
          /\ batchSize = 1
          /\ spatialSizes = <<1, 15, 29>>
    /\ Fresh

\* get_conv_output_size(example, stride_value), and the shape nn.Conv3d
\* prints for the same example
Down ==
    /\ pc = "start"
    /\ size' = ConvAll(spatialSizes, strides[1])
    /\ \E k \in KernelSizes :
          /\ kernel_size' = k
          /\ layerOutput' = [i \in 1..Len(spatialSizes) |->
                ConvLayerOutputSize(spatialSizes[i], strides[1], k)]
    /\ pc' = "down"
    /\ UNCHANGED <<input, result, max_size, skipMatches, normsAccept,
                   netAccepted, netOutput>>

\* [i * stride_value for i in ...] on the sizes the down layer produced
Up ==
    /\ pc = "down"
    /\ netOutput' = [batch |-> batchSize,
                     spatial |-> TConvAll(size, strides[1])]
    /\ pc' = "up"
    /\ UNCHANGED <<input, result, size, max_size, skipMatches, normsAccept,
                   netAccepted, layer>>

\* print([i * stride_value for i in example.shape[2:]]), and the shape
\* nn.ConvTranspose3d prints for the same example
Transpose ==
    /\ pc = "start"
    /\ netOutput' = [batch |-> batchSize,
                     spatial |-> TConvAll(spatialSizes, strides[1])]
    /\ \E k \in KernelSizes :
          /\ kernel_size' = k
          /\ layerOutput' = [i \in 1..Len(spatialSizes) |->
                ConvTransposeLayerOutputSize(spatialSizes[i], strides[1], k)]
    /\ pc' = "transposed"
    /\ UNCHANGED <<input, result, size, max_size, skipMatches, normsAccept,
                   netAccepted>>

NextShape == Down \/ Up \/ Transpose

SpecShape == InitShape /\ [][NextShape]_vars

\* ------------------------------------------------------------- properties
Positive == PositiveShape(batchSize, spatialSizes)

innerProduct == Prod(Tail(strides))

Dims == 1..Len(spatialSizes)

\* C1 (oracle soundness): whenever the rules say Valid, the forward pass of
\* the network on the same input returns.
C1_ValidImpliesAccepted ==
    (pc = "done" /\ result.kind = "Valid") => netAccepted

C1_Witness ==
    /\ pc = "done" /\ result.kind = "Valid" /\ netAccepted
    /\ norm = "Instance" /\ Len(strides) > 1 /\ innerProduct > 1

\* C2 as stated (oracle completeness): whenever the rules say Invalid for a
\* shape with positive entries, the forward pass of the network fails.
C2_InvalidImpliesRejected ==
    (pc = "done" /\ Positive /\ result.kind = "Invalid") => ~netAccepted

\* product of the spatial sizes at the bottom layer of the network
DeepestProduct ==
    Prod([i \in 1..Len(size) |-> size[i] \div innerProduct])

\* C2 amended: an Invalid verdict for a shape with positive entries means
\* the network fails, except when the violated rule is the normalization
\* rule and the product of the spatial sizes at the deepest layer exceeds 1;
\* exactly those inputs are accepted by the network although reported
\* Invalid.
C2_InvalidRejectedUnlessNormConservative ==
    (pc = "done" /\ Positive /\ result.kind = "Invalid") =>
        (netAccepted <=> (/\ result.rule = "NormalizationSizeViolation"
                          /\ DeepestProduct > 1))

C2_Witness ==
    /\ pc = "done" /\ Positive /\ result.kind = "Invalid"
    /\ result.rule = "SkipDivisibilityViolation" /\ ~netAccepted
    /\ Len(strides) > 1

\* C3 as stated: whenever the rules say Valid, the output has the batch size
\* and exactly the spatial sizes of the input.
C3_OutputEqualsInput ==
    (pc = "done" /\ result.kind = "Valid" /\ netAccepted) =>
        /\ netOutput.batch = batchSize
        /\ netOutput.spatial = spatialSizes

\* C3 amended: whenever the rules say Valid, the output has the batch size
\* and the number of spatial dimensions of the input, and a spatial size of
\* the output equals the input size v exactly when strides[0] divides v;
\* otherwise it is larger than v.
C3_OutputEqualsInputIffFirstStrideDivides ==
    (pc = "done" /\ result.kind = "Valid") =>
        /\ netOutput.batch = batchSize
        /\ Len(netOutput.spatial) = Len(spatialSizes)
        /\ \A i \in Dims :
              /\ (netOutput.spatial[i] = spatialSizes[i])
                    <=> (spatialSizes[i] % strides[1] = 0)
              /\ netOutput.spatial[i] >= spatialSizes[i]

C3_Witness ==
    /\ pc = "done" /\ result.kind = "Valid" /\ netAccepted
    /\ strides = <<3, 5>> /\ batchSize = 2
    /\ spatialSizes = <<13, 14, 15>>
    /\ netOutput.spatial = <<15, 15, 15>>

\* C4: for a positive size x entering the nested stages, every nested
\* (down s, up s) pair gives back the size it received exactly when x is
\* divisible by the product of strides[1:].
C4_SkipsMatchIffDivisible ==
    (pc = "done" /\ Positive) =>
        \A i \in Dims :
            skipMatches[i] <=> (size[i] % innerProduct = 0)

C4_Witness ==
    /\ pc = "done" /\ Positive /\ Len(strides) >= 3
    /\ strides[2] > 1 /\ strides[3] > 1
    /\ \E i \in Dims : skipMatches[i]
    /\ \E i \in Dims : ~skipMatches[i] /\ size[i] % strides[2] = 0

\* C5: for positive inputSize and stride, the transposed convolution of the
\* convolution's output gives inputSize back exactly when stride divides
\* inputSize, and a different value otherwise.
C5_RoundTripIffDivisible ==
    (pc = "up" /\ Positive) =>
        \A i \in Dims :
            (netOutput.spatial[i] = spatialSizes[i])
                <=> (spatialSizes[i] % strides[1] = 0)

C5_Witness ==
    /\ pc = "up" /\ Positive /\ strides[1] > 1
    /\ \E i \in Dims : netOutput.spatial[i] = spatialSizes[i]
    /\ \E i \in Dims : netOutput.spatial[i] # spatialSizes[i]

Evaluated == pc \in {"evaluated", "done"}

SkipInvalid == [kind |-> "Invalid", rule |-> "SkipDivisibilityViolation"]
NormInvalid == [kind |-> "Invalid", rule |-> "NormalizationSizeViolation"]

\* C6: with more than one stride and any normalization layer, a shape with
\* at least one spatial dimension whose size after the first down layer is
\* not divisible by the product of strides[1:] is
\* Invalid(SkipDivisibilityViolation) however many other dimensions pass;
\* strides (3,2,4) with local response normalization: [22,23,24] is Valid.
C6_OneFailingDimensionInvalidates ==
    /\ (/\ Evaluated /\ Positive /\ Len(strides) > 1
        /\ \E i \in Dims : size[i] % innerProduct # 0)
            => result = SkipInvalid
    /\ (/\ Evaluated /\ strides = <<3, 2, 4>> /\ norm = "LocalResponse"
        /\ batchSize = 1 /\ spatialSizes = <<22, 23, 24>>)
            => result.kind = "Valid"

C6_Witness ==
    /\ Evaluated /\ strides = <<3, 2, 4>> /\ norm = "LocalResponse"
    /\ spatialSizes = <<25, 23, 24>>
    /\ size[1] % innerProduct # 0
    /\ size[2] % innerProduct = 0 /\ size[3] % innerProduct = 0
    /\ result = SkipInvalid

\* the part of C7 about accepted shapes: with instance normalization and
\* more than one stride, when the size of the maximum dimension after the
\* first down layer is divisible by 2 * product(strides[1:]) and every
\* dimension satisfies the divisibility rule, the maximum dimension has
\* size >= 2 at the deepest layer and every normalization layer accepts.
C7_DeepestSizeAtLeastTwo ==
    (/\ pc = "done" /\ Positive /\ norm = "Instance" /\ Len(strides) > 1
     /\ max_size % (2 * innerProduct) = 0
     /\ \A i \in Dims : size[i] % innerProduct = 0)
        => /\ max_size \div innerProduct >= 2
           /\ normsAccept
           /\ result.kind = "Valid"

C8_InstanceSingleStage ==
    (Evaluated /\ Positive /\ norm = "Instance" /\ Len(strides) = 1) =>
        LET d == MaxOf(spatialSizes)
            s == strides[1]
        IN  /\ (max_size >= 2) <=> (d >= s + 1)
            /\ (result.kind = "Valid") <=> (d >= s + 1)
            /\ (d < s + 1) => result = NormInvalid

C8_Witness ==
    /\ Evaluated /\ norm = "Instance" /\ strides = <<3>>
    /\ spatialSizes = <<4, 1, 1>> /\ max_size = 2
    /\ result.kind = "Valid"

\* C9: with batch normalization, for any strides and any positive spatial
\* sizes that satisfy the divisibility rule, the shape is Valid exactly when
\* the batch size is larger than 1, whatever the spatial sizes are; batch
\* size 1 is Invalid(NormalizationSizeViolation).
C9_BatchRule ==
    (/\ Evaluated /\ Positive /\ norm = "Batch"
     /\ \A i \in Dims : size[i] % innerProduct = 0)
        => /\ (result.kind = "Valid") <=> (batchSize > 1)
           /\ (batchSize = 1) => result = NormInvalid

C9_Witness ==
    /\ Evaluated /\ norm = "Batch" /\ strides = <<3>>
    /\ batchSize = 2 /\ spatialSizes = <<1, 1, 1>>
    /\ result.kind = "Valid"

\* C10: with local response normalization a shape with positive entries is
\* Valid exactly when every spatial dimension satisfies the divisibility
\* rule; with a single stride every such shape is Valid.
C10_LocalResponseAddsNothing ==
    (Evaluated /\ Positive /\ norm = "LocalResponse") =>
        /\ (result.kind = "Valid")
              <=> (\A i \in Dims : size[i] % innerProduct = 0)
        /\ (Len(strides) = 1) => result.kind = "Valid"

C10_Witness ==
    /\ Evaluated /\ norm = "LocalResponse" /\ strides = <<3>>
    /\ batchSize = 1 /\ spatialSizes = <<1, 1, 1>>
    /\ result.kind = "Valid"

NonPositiveInvalid == [kind |-> "Invalid", rule |-> "NonPositiveDimension"]

\* the three rules read off the state, in the order they are evaluated
ViolatesPositivity ==
    batchSize < 1 \/ \E i \in Dims : spatialSizes[i] < 1

ViolatesDivisibility ==
    Len(strides) > 1 /\ \E i \in Dims : size[i] % innerProduct # 0

ViolatesNormalization ==
    \/ norm = "Batch" /\ batchSize <= 1
    \/ norm = "Instance" /\ Len(strides) = 1 /\ max_size < 2
    \/ norm = "Instance" /\ Len(strides) > 1
          /\ max_size % (2 * innerProduct) # 0

C12_ConvOutputIsCeiling ==
    (pc = "down") =>
        \A i \in Dims :
            LET v == spatialSizes[i]
                s == strides[1]
            IN  /\ (size[i] >= 1) <=> (v >= 1)
                /\ (v >= 1) => /\ size[i] * s >= v
                               /\ (size[i] - 1) * s < v

C12_Witness ==
    /\ pc = "down" /\ strides[1] > 1
    /\ \E i \in Dims : /\ spatialSizes[i] > strides[1]
                       /\ spatialSizes[i] % strides[1] # 0
                       /\ size[i] * strides[1] > spatialSizes[i]
    /\ \E i \in Dims : spatialSizes[i] = 1 /\ size[i] = 1

\* C13: for a positive inputSize, a positive stride and an odd kernel size,
\* the size the convolution layer produces with dilation 1 and padding
\* (kernelSize - 1) / 2 is the size the simplified formula gives, whatever
\* the kernel size; stride 3, kernel 3, sizes [1,15,29] give [1,5,10].
C13_SimplifiedConvIsExact ==
    /\ (pc = "down" /\ \A i \in Dims : spatialSizes[i] >= 1)
            => /\ kernel_size \in KernelSizes
               /\ layerOutput = size
    /\ (/\ pc = "down" /\ strides = <<3>> /\ kernel_size = 3
        /\ spatialSizes = <<1, 15, 29>>)
            => layerOutput = <<1, 5, 10>>

C13_Witness ==
    /\ pc = "down" /\ strides = <<3>> /\ kernel_size = 3
    /\ spatialSizes = <<1, 15, 29>>
    /\ size = <<1, 5, 10>> /\ layerOutput = <<1, 5, 10>>

\* C14: for a positive inputSize, a positive stride and an odd kernel size,
\* the size the transposed convolution layer produces with dilation 1,
\* padding (kernelSize - 1) / 2 and output padding stride - 1 is
\* inputSize * stride, whatever the kernel size; stride 3, sizes [1,15,29]
\* give [3,45,87].
C14_SimplifiedTransposedConvIsExact ==
    /\ (pc = "transposed" /\ \A i \in Dims : spatialSizes[i] >= 1)
            => /\ kernel_size \in KernelSizes
               /\ layerOutput = netOutput.spatial
               /\ \A i \in Dims :
                     layerOutput[i] = spatialSizes[i] * strides[1]
    /\ (/\ pc = "transposed" /\ strides = <<3>>
        /\ spatialSizes = <<1, 15, 29>>)
            => layerOutput = <<3, 45, 87>>

C14_Witness ==
    /\ pc = "transposed" /\ strides = <<3>> /\ kernel_size = 5
    /\ spatialSizes = <<1, 15, 29>>
    /\ netOutput.spatial = <<3, 45, 87>> /\ layerOutput = <<3, 45, 87>>

\* the shapes the example cells printed
RecordedRun(s, n, b, sp, out) ==
    (/\ pc = "done" /\ strides = s /\ norm = n /\ batchSize = b
     /\ spatialSizes = sp)
        => netAccepted /\ netOutput = [batch |-> b, spatial |-> out]

\* C15: for every input the network accepts, every nested stage gives back
\* the size it received and the spatial size of the output for an input
\* size v is v rounded up to the next multiple of strides[0]; it equals v
\* only when strides[0] divides v.  The recorded runs: 1 -> 3 and 4 -> 6
\* for strides (3,), 13,14,15 -> 15 for (3,5), 22,23,24 -> 24 for (3,2,4),
\* 24,12,12 -> 24,12,12 for (1,2,2,3).
C15_OutputRoundsUpToFirstStride ==
    /\ (pc = "done" /\ netAccepted) =>
          /\ Len(netOutput.spatial) = Len(spatialSizes)
          /\ \A i \in Dims :
                LET v   == spatialSizes[i]
                    out == netOutput.spatial[i]
                    s0  == strides[1]
                IN  /\ skipMatches[i]
                    /\ out % s0 = 0
                    /\ out >= v
                    /\ out - v < s0
                    /\ (out = v) <=> (v % s0 = 0)
    /\ RecordedRun(<<3>>, "Batch", 2, <<1, 1, 1>>, <<3, 3, 3>>)
    /\ RecordedRun(<<3>>, "LocalResponse", 1, <<1, 1, 1>>, <<3, 3, 3>>)
    /\ RecordedRun(<<3>>, "Instance", 1, <<4, 1, 1>>, <<6, 3, 3>>)
    /\ RecordedRun(<<3, 5>>, "Batch", 2, <<13, 14, 15>>, <<15, 15, 15>>)
    /\ RecordedRun(<<3, 2, 4>>, "LocalResponse", 1, <<22, 23, 24>>,
                   <<24, 24, 24>>)
    /\ RecordedRun(<<1, 2, 2, 3>>, "Instance", 1, <<24, 12, 12>>,
                   <<24, 12, 12>>)

C15_Witness ==
    /\ pc = "done" /\ netAccepted /\ strides = <<3, 2, 4>>
    /\ spatialSizes = <<22, 23, 24>>
    /\ netOutput.spatial = <<24, 24, 24>>

====
